---------------------------- MODULE Spec2Model ----------------------------
(***************************************************************************)
(* Model of the retrieval core of the AI video tutor backend:              *)
(*   - SemanticChunker.chunk   (services/transcript/chunker.py)            *)
(*   - MultiStrategyRetriever  (services/rag/retriever.py) over the        *)
(*     ChromaVectorStore queries (services/rag/vector_store.py)            *)
(*   - the ingestion routes and their background tasks                     *)
(*     (api/routes/transcript.py)                                          *)
(*                                                                         *)
(* Times are whole seconds.  A text is a sequence of one-character         *)
(* strings, so that lower(), strip(), startswith(), " ".join() and the     *)
(* regular-expression searches are computed on the characters.             *)
(***************************************************************************)
EXTENDS Integers, Sequences, FiniteSets, TLC

VARIABLES
    \* ---- SemanticChunker: configuration and input
    segments,           \* the argument of chunk(): a sequence of RawSegment
    min_duration,       \* self.min_duration
    max_duration,       \* self.max_duration
    overlap_duration,   \* self.overlap_duration
    \* ---- SemanticChunker.chunk: locals
    cpc,                \* position in chunk(): "start", "scan", "done"
    idx,                \* index of the segment the for loop is at
    chunks,             \* the list being built and returned
    current_texts,      \* pending buffer
    current_start,
    current_end,
    \* ---- the caller of chunk() and its clock
    now,                \* what datetime.utcnow() returns
    calls,              \* the number of chunk() calls made on the input
    first_result,       \* the list the first call returned
    \* ---- ChromaVectorStore
    collection,         \* the rows of the Chroma collection, in stored order
    video_cache,        \* self._video_cache: per video None or its record
    op,                 \* the store operation completed last, with what it
                        \* returned and the collection it started from
    \* ---- MultiStrategyRetriever: configuration
    temporal_window,    \* self.temporal_window
    max_per_strategy,   \* self.max_per_strategy
    \* ---- MultiStrategyRetriever.retrieve: arguments and locals
    rpc,                \* position in retrieve(): "idle", or the await it is
                        \* suspended at: "temporal", "foundational", "embed",
                        \* "search", or "done"
    timestamp,
    max_total,
    temporal_chunks,
    results,
    seen_chunk_ids,
    metadata_queried,   \* whether query_by_metadata was called
    semantic_chunks,    \* what _retrieve_semantic returned
    failed_calls,       \* what went wrong during this retrieve(): the
                        \* dependency calls that failed, and "cancel" if the
                        \* call was cancelled
    retrieved,          \* the list retrieve() returned
    \* ---- api/routes/transcript.py
    video_status,       \* the module's video_status dict: per video its
                        \* "status", or "absent" for a missing key
    tasks,              \* the background tasks added so far, in order: what
                        \* each runs, for which video, the await it is at
                        \* and how it ended
    request             \* the request answered last: the route, the video,
                        \* the response and the status it found

chunkVars == <<segments, min_duration, max_duration, overlap_duration,
               cpc, idx, chunks, current_texts, current_start, current_end,
               now, calls, first_result>>

storeVars == <<collection, video_cache, op>>

retrieverVars == <<temporal_window, max_per_strategy, rpc, timestamp, max_total,
                   temporal_chunks, results, seen_chunk_ids, metadata_queried,
                   semantic_chunks, failed_calls, retrieved>>

routeVars == <<video_status, tasks, request>>

vars == <<chunkVars, storeVars, retrieverVars, routeVars>>

-----------------------------------------------------------------------------
(* Bounds of the model *)

MaxSegs == 3
MaxTime == 3
MaxStored == 3
MaxTasks == 2

-----------------------------------------------------------------------------
(* The component a specification does not exercise stays as constructed *)

\* an Optional value: None, or the value it holds
None == <<>>

Some(x) == <<x>>

\* x or default
OrDefault(x, default) == IF x = None \/ x[1] = 0 THEN default ELSE x[1]

\* no chunk() call is made
ChunkerIdle ==
    /\ segments = <<>>
    /\ min_duration = 20 /\ max_duration = 40 /\ overlap_duration = 5
    /\ cpc = "idle"
    /\ idx = 0
    /\ chunks = <<>>
    /\ current_texts = <<>>
    /\ current_start = 0
    /\ current_end = 0
    /\ now = 0
    /\ calls = 0
    /\ first_result = <<>>

\* no request was made
RoutesIdle ==
    /\ video_status = [v \in {"v1", "v2"} |-> "absent"]
    /\ tasks = <<>>
    /\ request = [route |-> "none", video |-> "none", response |-> "none",
                  found |-> "absent"]

\* no store operation and no request was made by this process
StoreFresh ==
    /\ RoutesIdle
    /\ video_cache = [v \in {"v1", "v2"} |-> None]
    /\ op = [name |-> "none", arg |-> None, ret |-> None, again |-> FALSE,
             before |-> <<>>]

\* an empty collection and no retrieve() call
RetrieverIdle ==
    /\ collection = <<>>
    /\ StoreFresh
    /\ semantic_chunks = <<>>
    /\ failed_calls = {}
    /\ temporal_window = 60
    /\ max_per_strategy = 3
    /\ rpc = "idle"
    /\ timestamp = 0
    /\ max_total = 0
    /\ temporal_chunks = <<>>
    /\ results = <<>>
    /\ seen_chunk_ids = {}
    /\ metadata_queried = FALSE
    /\ retrieved = <<>>

-----------------------------------------------------------------------------
(* Characters and texts *)

UpperToLower ==
    [c \in {"A","B","C","D","E","F","G","H","I","J","K","L","M",
            "N","O","P","Q","R","S","T","U","V","W","X","Y","Z"} |->
     CASE c = "A" -> "a" [] c = "B" -> "b" [] c = "C" -> "c" [] c = "D" -> "d"
       [] c = "E" -> "e" [] c = "F" -> "f" [] c = "G" -> "g" [] c = "H" -> "h"
       [] c = "I" -> "i" [] c = "J" -> "j" [] c = "K" -> "k" [] c = "L" -> "l"
       [] c = "M" -> "m" [] c = "N" -> "n" [] c = "O" -> "o" [] c = "P" -> "p"
       [] c = "Q" -> "q" [] c = "R" -> "r" [] c = "S" -> "s" [] c = "T" -> "t"
       [] c = "U" -> "u" [] c = "V" -> "v" [] c = "W" -> "w" [] c = "X" -> "x"
       [] c = "Y" -> "y" [] c = "Z" -> "z"]

LowerLetters ==
    {"a","b","c","d","e","f","g","h","i","j","k","l","m",
     "n","o","p","q","r","s","t","u","v","w","x","y","z"}

Digits == {"0","1","2","3","4","5","6","7","8","9"}

\* \s of the re module
Whitespace == {" ", "\t", "\n", "\r"}

\* \w of the re module
WordChars == LowerLetters \cup DOMAIN UpperToLower \cup Digits \cup {"_"}

\* the list f[1], ..., f[Len(f)], built once
List(f) == SubSeq(f, 1, Len(f))

\* str.lower()
Lower(t) == List([k \in 1..Len(t) |-> IF t[k] \in DOMAIN UpperToLower
                                        THEN UpperToLower[t[k]] ELSE t[k]])

\* str.strip()
RECURSIVE LStrip(_)
LStrip(t) == IF t # <<>> /\ Head(t) \in Whitespace THEN LStrip(Tail(t)) ELSE t

RECURSIVE RStrip(_)
RStrip(t) == IF t # <<>> /\ t[Len(t)] \in Whitespace
               THEN RStrip(SubSeq(t, 1, Len(t) - 1)) ELSE t

Strip(t) == RStrip(LStrip(t))

\* " ".join(texts)
RECURSIVE Join(_)
Join(texts) ==
    IF texts = <<>> THEN <<>>
    ELSE IF Len(texts) = 1 THEN texts[1]
    ELSE texts[1] \o <<" ">> \o Join(Tail(texts))

\* the characters of p occur in t from position i on
HasAt(t, i, p) ==
    /\ i + Len(p) - 1 <= Len(t)
    /\ \A k \in 1..Len(p) : t[i + k - 1] = p[k]

\* str.startswith(p)
StartsWith(t, p) == HasAt(t, 1, p)

\* p in t  (substring)
Contains(t, p) == \E i \in 1..(Len(t) - Len(p) + 1) : HasAt(t, i, p)

-----------------------------------------------------------------------------
(* Regular expressions: the subset the chunker's patterns use.             *)
(* A pattern is a sequence of elements                                     *)
(*   <<"b">>        \b          <<"w+">>    \w+                            *)
(*   <<"s+">>       \s+         <<"s*">>    \s*                            *)
(*   <<"lit", p>>   the characters p                                       *)
(*   <<"alt", P>>   one of the literals in the set P                       *)
(*   <<"opt", P>>   (?:...)? over the literals in the set P                *)

IsWordAt(t, i) == i >= 1 /\ i <= Len(t) /\ t[i] \in WordChars

\* \b between positions i-1 and i
IsBoundaryAt(t, i) == IsWordAt(t, i - 1) # IsWordAt(t, i)

\* the position after the longest run of characters of S from position i on
RECURSIVE RunEnd(_, _, _)
RunEnd(t, i, S) == IF i <= Len(t) /\ t[i] \in S THEN RunEnd(t, i + 1, S) ELSE i

\* elements k.. of pat match t from position i on
RECURSIVE MatchFrom(_, _, _, _)
MatchFrom(pat, k, t, i) ==
    IF k > Len(pat) THEN TRUE
    ELSE LET e == pat[k] IN
         CASE e[1] = "b"   -> IsBoundaryAt(t, i) /\ MatchFrom(pat, k + 1, t, i)
           [] e[1] = "w+"  -> \E j \in (i + 1)..RunEnd(t, i, WordChars) :
                                  MatchFrom(pat, k + 1, t, j)
           [] e[1] = "s+"  -> \E j \in (i + 1)..RunEnd(t, i, Whitespace) :
                                  MatchFrom(pat, k + 1, t, j)
           [] e[1] = "s*"  -> \E j \in i..RunEnd(t, i, Whitespace) :
                                  MatchFrom(pat, k + 1, t, j)
           [] e[1] = "lit" -> HasAt(t, i, e[2])
                              /\ MatchFrom(pat, k + 1, t, i + Len(e[2]))
           [] e[1] = "alt" -> \E p \in e[2] :
                                  HasAt(t, i, p)
                                  /\ MatchFrom(pat, k + 1, t, i + Len(p))
           [] e[1] = "opt" -> \/ MatchFrom(pat, k + 1, t, i)
                              \/ \E p \in e[2] :
                                  HasAt(t, i, p)
                                  /\ MatchFrom(pat, k + 1, t, i + Len(p))

\* re.search(pat, t) is not None
Search(pat, t) == \E i \in 1..(Len(t) + 1) : MatchFrom(pat, 1, t, i)

SetMax(S) == CHOOSE x \in S : \A y \in S : y <= x

SetMin(S) == CHOOSE x \in S : \A y \in S : x <= y

\* the position after the match of elements k.. from position i on that the
\* backtracking matcher finds first (repetitions are greedy), 0 if there is
\* none; the alternatives of the patterns here exclude one another
RECURSIVE MatchEnd(_, _, _, _)
MatchEnd(pat, k, t, i) ==
    IF k > Len(pat) THEN i
    ELSE LET e == pat[k]
             rest(j) == MatchEnd(pat, k + 1, t, j)
             longest(J) == LET ok == { j \in J : rest(j) # 0 }
                           IN IF ok = {} THEN 0 ELSE rest(SetMax(ok))
             one_of(P) == LET ok == { q \in P : HasAt(t, i, q)
                                                /\ rest(i + Len(q)) # 0 }
                          IN IF ok = {} THEN 0
                             ELSE rest(i + Len(CHOOSE q \in ok : TRUE))
         IN CASE e[1] = "b"   -> IF IsBoundaryAt(t, i) THEN rest(i) ELSE 0
              [] e[1] = "w+"  -> longest((i + 1)..RunEnd(t, i, WordChars))
              [] e[1] = "s+"  -> longest((i + 1)..RunEnd(t, i, Whitespace))
              [] e[1] = "s*"  -> longest(i..RunEnd(t, i, Whitespace))
              [] e[1] = "lit" -> IF HasAt(t, i, e[2]) THEN rest(i + Len(e[2]))
                                 ELSE 0
              [] e[1] = "alt" -> one_of(e[2])
              [] e[1] = "opt" -> IF one_of(e[2]) # 0 THEN one_of(e[2])
                                 ELSE rest(i)

\* the matches re.findall(pat, t) goes through, from position i on: the
\* <<start, position after the end>> of the leftmost match, then of the
\* leftmost match after it, and so on
RECURSIVE FindAll(_, _, _)
FindAll(pat, t, i) ==
    LET starts == { j \in i..(Len(t) + 1) : MatchFrom(pat, 1, t, j) }
    IN IF starts = {} THEN <<>>
       ELSE LET j == SetMin(starts)
                e == MatchEnd(pat, 1, t, j)
            IN <<<<j, e>>>> \o FindAll(pat, t, IF e = j THEN e + 1 ELSE e)

-----------------------------------------------------------------------------
(* SemanticChunker.__init__: the fixed vocabularies *)

topic_markers ==
    { <<"n","o","w"," ","l","e","t","'","s">>,
      <<"n","e","x","t",",">>,
      <<"m","o","v","i","n","g"," ","o","n">>,
      <<"a","n","o","t","h","e","r">>,
      <<"f","i","r","s","t",",">>,
      <<"s","e","c","o","n","d",",">>,
      <<"t","h","i","r","d",",">>,
      <<"f","i","n","a","l","l","y",",">>,
      <<"i","n"," ","c","o","n","c","l","u","s","i","o","n">>,
      <<"t","h","e"," ","n","e","x","t"," ","t","h","i","n","g">>,
      <<"h","e","r","e","'","s">>,
      <<"s","o"," ","b","a","s","i","c","a","l","l","y">>,
      <<"l","e","t"," ","m","e"," ","e","x","p","l","a","i","n">>,
      <<"w","h","a","t"," ","i","s">>,
      <<"t","o"," ","u","n","d","e","r","s","t","a","n","d">>,
      <<"t","h","e"," ","k","e","y">>,
      <<"i","m","p","o","r","t","a","n","t","l","y">>,
      <<"h","o","w","e","v","e","r",",">>,
      <<"b","u","t",",">>,
      <<"o","n"," ","t","h","e"," ","o","t","h","e","r"," ","h","a","n","d">>,
      <<"f","o","r"," ","e","x","a","m","p","l","e">>,
      <<"l","e","t","'","s"," ","l","o","o","k"," ","a","t">>,
      <<"c","o","n","s","i","d","e","r">> }

W_is == <<"i","s">>
W_a == <<"a">>
W_an == <<"a","n">>
W_the == <<"t","h","e">>
W_this == <<"t","h","i","s">>

definitional_patterns ==
    << \* \b(\w+)\s+is\s+(a|an|the)\s+
       << <<"b">>, <<"w+">>, <<"s+">>, <<"lit", W_is>>, <<"s+">>,
          <<"alt", {W_a, W_an, W_the}>>, <<"s+">> >>,
       \* \bwhat\s+is\s+
       << <<"b">>, <<"lit", <<"w","h","a","t">>>>, <<"s+">>,
          <<"lit", W_is>>, <<"s+">> >>,
       \* \bdefined\s+as\b
       << <<"b">>, <<"lit", <<"d","e","f","i","n","e","d">>>>, <<"s+">>,
          <<"lit", <<"a","s">>>>, <<"b">> >>,
       \* \bmeans\s+that\b
       << <<"b">>, <<"lit", <<"m","e","a","n","s">>>>, <<"s+">>,
          <<"lit", <<"t","h","a","t">>>>, <<"b">> >>,
       \* \brefers\s+to\b
       << <<"b">>, <<"lit", <<"r","e","f","e","r","s">>>>, <<"s+">>,
          <<"lit", <<"t","o">>>>, <<"b">> >>,
       \* \bbasically\b
       << <<"b">>, <<"lit", <<"b","a","s","i","c","a","l","l","y">>>>, <<"b">> >>,
       \* \bin\s+simple\s+terms\b
       << <<"b">>, <<"lit", <<"i","n">>>>, <<"s+">>,
          <<"lit", <<"s","i","m","p","l","e">>>>, <<"s+">>,
          <<"lit", <<"t","e","r","m","s">>>>, <<"b">> >>,
       \* \bwe\s+call\s+this\b
       << <<"b">>, <<"lit", <<"w","e">>>>, <<"s+">>,
          <<"lit", <<"c","a","l","l">>>>, <<"s+">>,
          <<"lit", W_this>>, <<"b">> >>,
       \* \bthis\s+is\s+called\b
       << <<"b">>, <<"lit", W_this>>, <<"s+">>, <<"lit", W_is>>, <<"s+">>,
          <<"lit", <<"c","a","l","l","e","d">>>>, <<"b">> >> >>

\* \b(this|these)\s+(?:is|are)\s+(?:a|an|the)?\s*\w+
this_is_pattern ==
    << <<"b">>, <<"alt", {W_this, <<"t","h","e","s","e">>}>>, <<"s+">>,
       <<"alt", {W_is, <<"a","r","e">>}>>, <<"s+">>,
       <<"opt", {W_a, W_an, W_the}>>, <<"s*">>, <<"w+">> >>

-----------------------------------------------------------------------------
(* models/transcript.py: RawSegment *)

\* RawSegment.end
end(seg) == seg.start + seg.duration

RawSegment(text, start, duration) ==
    [text |-> text, start |-> start, duration |-> duration]

-----------------------------------------------------------------------------
(* Inputs *)

\* segment texts as the acquisition layer delivers them (already stripped)
TxtDef == <<"X"," ","i","s"," ","a"," ","y">>
TxtMarker == <<"B","u","t",","," ","z">>
Texts == {TxtDef, TxtMarker}

\* a well-formed segment: start >= 0, duration >= 0
SegmentDomain ==
    { RawSegment(t, s, d) : t \in Texts, s \in 0..MaxTime, d \in 0..MaxTime }

\* well-formed segment sequences: start non-decreasing, segments may overlap
IsOrdered(segs) ==
    \A k \in 1..(Len(segs) - 1) : segs[k].start <= segs[k + 1].start

\* (min_duration, max_duration, overlap_duration) with 0 < min <= max
Config(mn, mx, ov) == [min |-> mn, max |-> mx, overlap |-> ov]
Configs == { Config(1, 2, 1), Config(2, 3, 3) }

\* the five-fragment scenario: the first five segments of
\* tests/test_quick.py:test_chunker with their texts shortened
TxtIntro == <<"I","n","t","r","o">>
TxtMLBasics == <<"M","L"," ","b","a","s","i","c","s">>
TxtNeural == <<"N","e","u","r","a","l"," ","i","s"," ","a"," ","t","y","p","e"," ","o","f"," ","A","I">>
TxtApplies == <<"a","p","p","l","i","e","s"," ","d","a","t","a">>
TxtNowLets == <<"N","o","w"," ","l","e","t","'","s"," ","s","e","e"," ","C","N","N","s">>

ScenarioSegments ==
    << RawSegment(TxtIntro, 0, 3), RawSegment(TxtMLBasics, 3, 4),
       RawSegment(TxtNeural, 7, 5), RawSegment(TxtApplies, 12, 4),
       RawSegment(TxtNowLets, 16, 3) >>
ScenarioConfig == Config(5, 15, 2)

-----------------------------------------------------------------------------
(* SemanticChunker *)

video_id == "test123"

Max(a, b) == IF a >= b THEN a ELSE b

\* f"{start:.1f}" of a whole number of seconds: the digits before and after the point
Format1f(t) == <<t, 0>>

\* _is_natural_boundary without lower(): the markers are matched case-sensitively
is_natural_boundary_case_sensitive(text) ==
    \E marker \in topic_markers : StartsWith(Strip(text), marker)

\* SemanticChunker._is_natural_boundary
is_natural_boundary(text) ==
    LET text_lower == Strip(Lower(text)) IN
    \E marker \in topic_markers : StartsWith(text_lower, marker)

\* SemanticChunker._is_foundational
is_foundational(text) ==
    LET text_lower == Lower(text) IN
    \/ \E k \in 1..Len(definitional_patterns) :
           Search(definitional_patterns[k], text_lower)
    \/ Search(this_is_pattern, text_lower)

\* str.isalpha() of a lowercased text
IsAlpha(t) == t # <<>> /\ \A k \in 1..Len(t) : t[k] \in LowerLetters

\* str.split(): the words between runs of whitespace
RECURSIVE Split(_)
Split(t) ==
    LET u == LStrip(t) IN
    IF u = <<>> THEN <<>>
    ELSE LET stop == RunEnd(u, 1, { c \in { u[k] : k \in 1..Len(u) } :
                                      c \notin Whitespace })
         IN <<SubSeq(u, 1, stop - 1)>> \o Split(SubSeq(u, stop, Len(u)))

\* the term re.findall yields for a match of definitional_patterns[p]: the
\* first group (\w+) for the first pattern, the one with groups, and the
\* whole match for the others
match_term(p, t, m) ==
    IF p = 1
    THEN LET pat == definitional_patterns[1]
             stop == SetMax({ j \in (m[1] + 1)..RunEnd(t, m[1], WordChars) :
                                MatchEnd(pat, 3, t, j) # 0 })
         IN SubSeq(t, m[1], stop - 1)
    ELSE SubSeq(t, m[1], m[2] - 1)

\* _extract_key_terms, lines 180-190: the terms of the definitional patterns
RECURSIVE pattern_terms(_, _)
pattern_terms(text_lower, p) ==
    IF p > Len(definitional_patterns) THEN <<>>
    ELSE LET matches == FindAll(definitional_patterns[p], text_lower, 1)
             found == List([k \in 1..Len(matches) |->
                              match_term(p, text_lower, matches[k])])
         IN SelectSeq(found, LAMBDA term : Len(term) > 2 /\ IsAlpha(term))
            \o pattern_terms(text_lower, p + 1)

\* _extract_key_terms, lines 192-201: the capitalized words inside sentences
RECURSIVE capitalized_terms(_, _, _)
capitalized_terms(words, i, terms) ==
    IF i > Len(words) THEN terms
    ELSE LET word == words[i]
             is_sentence_start ==
                 i = 1 \/ words[i - 1][Len(words[i - 1])] \in {".", "!", "?"}
             clean_word == SelectSeq(word, LAMBDA c :
                               c \in LowerLetters \cup DOMAIN UpperToLower)
             known == { terms[k] : k \in 1..Len(terms) }
         IN IF /\ ~is_sentence_start
               /\ word[1] \in DOMAIN UpperToLower
               /\ Len(word) > 2
               /\ clean_word # <<>>
               /\ Lower(clean_word) \notin known
            THEN capitalized_terms(words, i + 1, Append(terms, Lower(clean_word)))
            ELSE capitalized_terms(words, i + 1, terms)

\* _extract_key_terms, lines 203-209: deduplicate, keeping the order
RECURSIVE unique(_, _)
unique(terms, seen) ==
    IF terms = <<>> THEN <<>>
    ELSE IF Head(terms) \in seen THEN unique(Tail(terms), seen)
    ELSE <<Head(terms)>> \o unique(Tail(terms), seen \cup {Head(terms)})

\* SemanticChunker._extract_key_terms
extract_key_terms(text) ==
    LET from_patterns == pattern_terms(Lower(text), 1)
        terms == capitalized_terms(Split(text), 1, from_patterns)
        unique_terms == unique(terms, {})
    IN SubSeq(unique_terms, 1, IF Len(unique_terms) < 10 THEN Len(unique_terms)
                               ELSE 10)

\* the chunk texts that can be joined from at most MaxSegs + 1 segment texts
RECURSIVE JoinedTexts(_)
JoinedTexts(n) ==
    IF n = 0 THEN {}
    ELSE Texts \cup JoinedTexts(n - 1)
         \cup { Join(<<u, t>>) : u \in JoinedTexts(n - 1), t \in Texts }

\* extract_key_terms and is_foundational of those texts, computed once
ChunkTextTable ==
    [t \in JoinedTexts(MaxSegs + 1) |->
        [key_terms |-> extract_key_terms(t),
         is_foundational |-> is_foundational(t)]] @@ <<>>

key_terms_of(text) ==
    IF text \in DOMAIN ChunkTextTable THEN ChunkTextTable[text].key_terms
    ELSE extract_key_terms(text)

is_foundational_of(text) ==
    IF text \in DOMAIN ChunkTextTable THEN ChunkTextTable[text].is_foundational
    ELSE is_foundational(text)

\* _create_chunk with a chunk_id built from (video_id, start) only
create_chunk_id_without_sequence(text, start, end_, sequence) ==
    LET stripped == Strip(text) IN
    [ chunk_id       |-> <<video_id, Format1f(start)>>,
      video_id       |-> video_id,
      sequence       |-> sequence,
      start_time     |-> start,
      end_time       |-> end_,
      duration       |-> end_ - start,
      text           |-> stripped,
      key_terms      |-> key_terms_of(stripped),
      is_foundational |-> is_foundational_of(stripped),
      created_at     |-> now ]

\* _create_chunk with a chunk_id built from the creation time
create_chunk_id_from_clock(text, start, end_, sequence) ==
    LET stripped == Strip(text) IN
    [ chunk_id       |-> <<video_id, Format1f(start), now>>,
      video_id       |-> video_id,
      sequence       |-> sequence,
      start_time     |-> start,
      end_time       |-> end_,
      duration       |-> end_ - start,
      text           |-> stripped,
      key_terms      |-> key_terms_of(stripped),
      is_foundational |-> is_foundational_of(stripped),
      created_at     |-> now ]

\* SemanticChunker._create_chunk
create_chunk(text, start, end_, sequence) ==
    LET stripped == Strip(text) IN
    [ chunk_id       |-> <<video_id, Format1f(start), sequence>>,
      video_id       |-> video_id,
      sequence       |-> sequence,
      start_time     |-> start,
      end_time       |-> end_,
      duration       |-> end_ - start,
      text           |-> stripped,
      key_terms      |-> key_terms_of(stripped),
      is_foundational |-> is_foundational_of(stripped),
      created_at     |-> now ]

\* should_split that looks at max_duration only
should_split_at_max_only(segment) ==
    end(segment) - current_start >= max_duration

\* chunk(), lines 89-93
should_split(segment) ==
    LET potential_end == end(segment)
        potential_duration == potential_end - current_start
    IN \/ potential_duration >= max_duration
       \/ (potential_duration >= min_duration
           /\ is_natural_boundary(segment.text))

\* an overlap scan that takes every segment that ends inside the chunk
RECURSIVE overlap_scan_from_chunk_start(_, _, _, _)
overlap_scan_from_chunk_start(segs, k, overlap_start, cur_end) ==
    IF k > Len(segs) THEN <<>>
    ELSE IF end(segs[k]) <= cur_end
         THEN <<segs[k].text>>
              \o overlap_scan_from_chunk_start(segs, k + 1, overlap_start, cur_end)
    ELSE overlap_scan_from_chunk_start(segs, k + 1, overlap_start, cur_end)

\* chunk(), lines 108-114: the positions of the segments the scan takes
RECURSIVE overlap_positions(_, _, _, _)
overlap_positions(segs, k, overlap_start, cur_end) ==
    IF k > Len(segs) THEN <<>>
    ELSE IF segs[k].start >= overlap_start /\ end(segs[k]) <= cur_end
         THEN <<k>> \o overlap_positions(segs, k + 1, overlap_start, cur_end)
    ELSE IF segs[k].start > cur_end THEN <<>>
    ELSE overlap_positions(segs, k + 1, overlap_start, cur_end)

\* chunk(), lines 108-114: the scan for the segments in the overlap window
RECURSIVE overlap_scan(_, _, _, _)
overlap_scan(segs, k, overlap_start, cur_end) ==
    IF k > Len(segs) THEN <<>>
    ELSE IF segs[k].start >= overlap_start /\ end(segs[k]) <= cur_end
         THEN <<segs[k].text>> \o overlap_scan(segs, k + 1, overlap_start, cur_end)
    ELSE IF segs[k].start > cur_end THEN <<>>
    ELSE overlap_scan(segs, k + 1, overlap_start, cur_end)

\* chunk(), lines 76-82
ChunkStart ==
    /\ UNCHANGED <<storeVars, retrieverVars, routeVars, now, calls, first_result>>
    /\ cpc = "start"
    /\ IF segments = <<>>
       THEN /\ cpc' = "done"
            /\ UNCHANGED <<idx, chunks, current_texts, current_start, current_end>>
       ELSE /\ cpc' = "scan"
            /\ idx' = 1
            /\ chunks' = <<>>
            /\ current_texts' = <<>>
            /\ current_start' = segments[1].start
            /\ current_end' = segments[1].start
    /\ UNCHANGED <<segments, min_duration, max_duration, overlap_duration>>

\* the splitting iteration with the append of the current segment left out
SplitStep_DropsSegment ==
    /\ UNCHANGED <<storeVars, retrieverVars, routeVars, now, calls, first_result>>
    /\ cpc = "scan"
    /\ idx <= Len(segments)
    /\ LET segment == segments[idx]
           overlap_start == Max(0, current_end - overlap_duration)
           overlap_texts == overlap_scan(segments, 1, overlap_start, current_end)
       IN /\ should_split(segment) /\ current_texts # <<>>
          /\ chunks' = Append(chunks,
                              create_chunk(Join(current_texts), current_start,
                                           current_end, Len(chunks)))
          /\ current_texts' = overlap_texts
          /\ current_start' = IF overlap_texts # <<>> THEN overlap_start
                                                      ELSE segment.start
          /\ current_end' = end(segment)
    /\ idx' = idx + 1
    /\ UNCHANGED <<segments, min_duration, max_duration, overlap_duration, cpc>>

\* chunk(), lines 84-120: one iteration that splits before appending
SplitStep ==
    /\ UNCHANGED <<storeVars, retrieverVars, routeVars, now, calls, first_result>>
    /\ cpc = "scan"
    /\ idx <= Len(segments)
    /\ LET segment == segments[idx]
           overlap_start == Max(0, current_end - overlap_duration)
           overlap_texts == overlap_scan(segments, 1, overlap_start, current_end)
       IN /\ should_split(segment) /\ current_texts # <<>>
          /\ chunks' = Append(chunks,
                              create_chunk(Join(current_texts), current_start,
                                           current_end, Len(chunks)))
          /\ current_texts' = Append(overlap_texts, segment.text)
          /\ current_start' = IF overlap_texts # <<>> THEN overlap_start
                                                      ELSE segment.start
          /\ current_end' = end(segment)
    /\ idx' = idx + 1
    /\ UNCHANGED <<segments, min_duration, max_duration, overlap_duration, cpc>>

\* chunk(), lines 84-120: one iteration that only appends
AppendStep ==
    /\ UNCHANGED <<storeVars, retrieverVars, routeVars, now, calls, first_result>>
    /\ cpc = "scan"
    /\ idx <= Len(segments)
    /\ LET segment == segments[idx]
       IN /\ ~(should_split(segment) /\ current_texts # <<>>)
          /\ current_texts' = Append(current_texts, segment.text)
          /\ current_end' = end(segment)
    /\ idx' = idx + 1
    /\ UNCHANGED <<segments, min_duration, max_duration, overlap_duration, cpc,
                   chunks, current_start>>

\* the return without the flush of the pending buffer
Flush_ForgetsLastChunk ==
    /\ UNCHANGED <<storeVars, retrieverVars, routeVars, now, calls, first_result>>
    /\ cpc = "scan"
    /\ idx > Len(segments)
    /\ cpc' = "done"
    /\ UNCHANGED <<segments, min_duration, max_duration, overlap_duration,
                   idx, chunks, current_texts, current_start, current_end>>

\* chunk(), lines 122-132: the last chunk, and the return
Flush ==
    /\ UNCHANGED <<storeVars, retrieverVars, routeVars, now, calls, first_result>>
    /\ cpc = "scan"
    /\ idx > Len(segments)
    /\ chunks' = IF current_texts # <<>>
                 THEN Append(chunks,
                             create_chunk(Join(current_texts), current_start,
                                          current_end, Len(chunks)))
                 ELSE chunks
    /\ cpc' = "done"
    /\ UNCHANGED <<segments, min_duration, max_duration, overlap_duration,
                   idx, current_texts, current_start, current_end>>

ChunkInit ==
    /\ \/ \E c \in Configs, n \in 0..MaxSegs :
            /\ \E starts \in [1..n -> 0..MaxTime] :
                 /\ \A k \in 1..(n - 1) : starts[k] <= starts[k + 1]
                 /\ \E durations \in [1..n -> 0..MaxTime] :
                      /\ \A k \in 1..n : starts[k] + durations[k] <= MaxTime
                      /\ \E texts \in [1..n -> Texts] :
                           segments = [k \in 1..n |->
                                         RawSegment(texts[k], starts[k], durations[k])]
            /\ min_duration = c.min
            /\ max_duration = c.max
            /\ overlap_duration = c.overlap
       \/ /\ segments = ScenarioSegments
          /\ min_duration = ScenarioConfig.min
          /\ max_duration = ScenarioConfig.max
          /\ overlap_duration = ScenarioConfig.overlap
    /\ cpc = "start"
    /\ idx = 0
    /\ chunks = <<>>
    /\ current_texts = <<>>
    /\ current_start = 0
    /\ current_end = 0
    /\ now = 0
    /\ calls = 1
    /\ first_result = <<>>
    /\ RetrieverIdle

ChunkNext == ChunkStart \/ SplitStep \/ AppendStep \/ Flush

ChunkSpec == ChunkInit /\ [][ChunkNext]_vars

-----------------------------------------------------------------------------
(* chunk() called a second time on the same input *)

\* the caller keeps the first list and calls chunk() again, on the same
\* chunker and the same segments; the clock may have moved on
CallAgain ==
    /\ cpc = "done"
    /\ calls = 1
    /\ first_result' = chunks
    /\ calls' = 2
    /\ \E elapsed \in {0, 1} : now' = now + elapsed
    /\ cpc' = "start"
    /\ idx' = 0
    /\ chunks' = <<>>
    /\ current_texts' = <<>>
    /\ current_start' = 0
    /\ current_end' = 0
    /\ UNCHANGED <<segments, min_duration, max_duration, overlap_duration,
                   storeVars, retrieverVars, routeVars>>

RerunNext ==
    \/ ChunkStart
    \/ SplitStep
    \/ AppendStep
    \/ Flush
    \/ CallAgain

\* the inputs of ChunkInit under the shorter of its configurations, and the
\* scenario
RerunInit == ChunkInit /\ (min_duration = 1 \/ segments = ScenarioSegments)

RerunSpec == RerunInit /\ [][RerunNext]_vars

-----------------------------------------------------------------------------
(* ChromaVectorStore: the collection and its queries *)

\* one row of the collection: id, document and the metadata upsert_chunks writes
Row(id, vid, start, end_, doc, terms, found) ==
    [ id |-> id, document |-> doc, video_id |-> vid, start_time |-> start,
      end_time |-> end_, is_foundational |-> found, key_terms |-> terms ]

ExplanationChunk(id, text, start, end_, relevance, similarity, terms) ==
    [ chunk_id |-> id, text |-> text, start_time |-> start, end_time |-> end_,
      relevance_type |-> relevance, similarity_score |-> similarity,
      key_terms |-> terms ]

Abs(x) == IF x < 0 THEN -x ELSE x

\* the ids of the rows of a list
IdsOfRows(rows) == { rows[k].id : k \in 1..Len(rows) }

Min(a, b) == IF a <= b THEN a ELSE b

\* s[:n]
SliceTo(s, n) ==
    IF n >= 0 THEN SubSeq(s, 1, Min(n, Len(s)))
    ELSE SubSeq(s, 1, Max(0, Len(s) + n))

\* a sort that leaves the list as it is
SortByKey_KeepsOrder(s, keys) == List(s)

\* list.sort(key=...): stable, ascending; keys[k] is the pair that is s[k]'s key
KeyLess(a, b) == a[1] < b[1] \/ (a[1] = b[1] /\ a[2] < b[2])

SortByKey(s, keys) ==
    LET list == List(s)
        ks == List(keys)
        rank == List([i \in 1..Len(list) |->
                        1 + Cardinality({ j \in 1..Len(list) :
                                \/ KeyLess(ks[j], ks[i])
                                \/ (ks[j] = ks[i] /\ j < i) })])
    IN List([p \in 1..Len(list) |->
                list[CHOOSE i \in 1..Len(list) : rank[i] = p]])

\* str.split(",")
RECURSIVE SplitComma(_)
SplitComma(t) ==
    IF \A k \in 1..Len(t) : t[k] # "," THEN <<t>>
    ELSE LET i == CHOOSE k \in 1..Len(t) :
                      t[k] = "," /\ \A m \in 1..(k - 1) : t[m] # ","
         IN <<SubSeq(t, 1, i - 1)>> \o SplitComma(SubSeq(t, i + 1, Len(t)))

\* [t.strip() for t in metadata.get("key_terms", "").split(",") if t.strip()]
parse_key_terms(joined) ==
    LET parts == SplitComma(joined)
        stripped == List([k \in 1..Len(parts) |-> Strip(parts[k])])
    IN SelectSeq(stripped, LAMBDA t : t # <<>>)

\* ChromaVectorStore._results_to_chunks
results_to_chunks(rows, relevance_type) ==
    List([k \in 1..Len(rows) |->
            ExplanationChunk(rows[k].id, rows[k].document, rows[k].start_time,
                             rows[k].end_time, relevance_type, None,
                             parse_key_terms(rows[k].key_terms))])

\* ChromaVectorStore.query_by_time_range, called with order_by_distance_to
query_by_time_range(vid, start, end_, order_by_distance_to) ==
    LET \* self.collection.get(where=...), in stored order
        rows == SelectSeq(collection, LAMBDA r : /\ r.video_id = vid
                                                 /\ r.start_time >= start
                                                 /\ r.end_time <= end_)
        cs == results_to_chunks(rows, "temporal")
    IN SortByKey(cs, [k \in 1..Len(cs) |->
                        <<Abs(cs[k].start_time - order_by_distance_to), 0>>])

\* query_by_metadata without its end_time < before_timestamp condition
query_by_metadata_any_time(vid, found, before_timestamp, key_terms, limit) ==
    LET rows == SelectSeq(collection, LAMBDA r :
                    /\ r.video_id = vid
                    /\ r.is_foundational = found)
        cs == results_to_chunks(rows, "foundational")
        key_terms_set == { Lower(t) : t \in key_terms }
        filtered == IF key_terms # {}
                    THEN SelectSeq(cs, LAMBDA c :
                             \E term \in key_terms_set : Contains(Lower(c.text), term))
                    ELSE cs
        sorted == SortByKey(filtered, [k \in 1..Len(filtered) |->
                                         <<filtered[k].start_time, 0>>])
    IN SliceTo(sorted, limit)

\* ChromaVectorStore.query_by_metadata, called with is_foundational and
\* before_timestamp
query_by_metadata(vid, found, before_timestamp, key_terms, limit) ==
    LET \* self.collection.get(where=...), in stored order
        rows == SelectSeq(collection, LAMBDA r :
                    /\ r.video_id = vid
                    /\ r.is_foundational = found
                    /\ r.end_time < before_timestamp)
        cs == results_to_chunks(rows, "foundational")
        key_terms_set == { Lower(t) : t \in key_terms }
        filtered == IF key_terms # {}
                    THEN SelectSeq(cs, LAMBDA c :
                             \E term \in key_terms_set : Contains(Lower(c.text), term))
                    ELSE cs
        sorted == SortByKey(filtered, [k \in 1..Len(filtered) |->
                                         <<filtered[k].start_time, 0>>])
    IN SliceTo(sorted, limit)

\* ChromaVectorStore.similarity_search; distances[k] is the cosine distance
\* of the k-th row's embedding to the query embedding
similarity_search(vid, distances, top_k) ==
    LET positions == SelectSeq([k \in 1..Len(collection) |-> k],
                               LAMBDA k : collection[k].video_id = vid)
        nearest == SliceTo(SortByKey(positions,
                               [k \in 1..Len(positions) |->
                                   <<distances[positions[k]], 0>>]), top_k)
    IN List([k \in 1..Len(nearest) |->
          LET r == collection[nearest[k]]
              distance == distances[nearest[k]]
              similarity == 1 - distance
          IN ExplanationChunk(r.id, r.document, r.start_time, r.end_time,
                              "semantic", Some(similarity),
                              parse_key_terms(r.key_terms))])

-----------------------------------------------------------------------------
(* ChromaVectorStore: upsert_chunks, video_exists, delete_video *)

Videos == {"v1", "v2"}

\* documents and joined key terms of the stored chunks
DocNetWeb == <<"N","e","t"," ","w","e","b">>
DocNet == <<"N","e","t">>
DocLowerNetWeb == <<"n","e","t"," ","w","e","b">>
DocX == <<"x">>
TermsNetWeb == <<"n","e","t",",","w","e","b">>
TermsNet == <<"n","e","t">>
TermsNone == <<>>

\* a TranscriptChunk as upsert_chunks reads it; embedding is None or a vector
TranscriptChunk(id, vid, start, end_, text, terms, found, embedding) ==
    [ chunk_id |-> id, video_id |-> vid, start_time |-> start, end_time |-> end_,
      text |-> text, key_terms |-> terms, is_foundational |-> found,
      embedding |-> embedding ]

\* ",".join(terms)
RECURSIVE JoinComma(_)
JoinComma(terms) ==
    IF terms = <<>> THEN <<>>
    ELSE IF Len(terms) = 1 THEN terms[1]
    ELSE terms[1] \o <<",">> \o JoinComma(Tail(terms))

\* upsert_chunks, lines 87-98: the row written for a chunk
row_of(chunk) ==
    Row(chunk.chunk_id, chunk.video_id, chunk.start_time, chunk.end_time,
        chunk.text, JoinComma(chunk.key_terms), chunk.is_foundational)

\* a collection.upsert that adds every row, also under an id already stored
RECURSIVE collection_upsert_adding(_, _)
collection_upsert_adding(rows, new_rows) ==
    IF new_rows = <<>> THEN rows
    ELSE collection_upsert_adding(Append(rows, Head(new_rows)), Tail(new_rows))

\* collection.upsert: a row whose id is stored replaces the stored row, any
\* other row is added
RECURSIVE collection_upsert(_, _)
collection_upsert(rows, new_rows) ==
    IF new_rows = <<>> THEN rows
    ELSE LET r == Head(new_rows)
             updated == IF \E k \in 1..Len(rows) : rows[k].id = r.id
                        THEN List([k \in 1..Len(rows) |->
                                     IF rows[k].id = r.id THEN r ELSE rows[k]])
                        ELSE Append(rows, r)
         IN collection_upsert(updated, Tail(new_rows))

\* collection.get(where={"video_id": video}): the stored rows of the video
rows_of_video(vid) == SelectSeq(collection, LAMBDA r : r.video_id = vid)

\* what video_exists returns: the cached record, else a record counted from
\* the collection, else None
video_exists_result(vid) ==
    IF video_cache[vid] # None THEN video_cache[vid]
    ELSE IF rows_of_video(vid) # <<>>
         THEN Some([total_chunks |-> Len(rows_of_video(vid))])
    ELSE None

\* the record of a completed store operation
Op(name, arg, ret, again) ==
    [name |-> name, arg |-> arg, ret |-> ret, again |-> again,
     before |-> collection]

\* ChromaVectorStore.upsert_chunks
upsert_chunks(chunk_list) ==
    LET embedded == SelectSeq(chunk_list, LAMBDA c : c.embedding # None)
        rows == List([k \in 1..Len(embedded) |-> row_of(embedded[k])])
        again == op.name = "upsert_chunks" /\ op.arg = chunk_list
    IN /\ op' = Op("upsert_chunks", chunk_list, None, again)
       /\ IF chunk_list = <<>> \/ rows = <<>>
          THEN UNCHANGED <<collection, video_cache>>
          ELSE /\ collection' = collection_upsert(collection, rows)
               /\ video_cache' =
                     [video_cache EXCEPT ![chunk_list[1].video_id] =
                         Some([total_chunks |-> Len(chunk_list)])]

\* ChromaVectorStore.video_exists
video_exists(vid) ==
    /\ op' = Op("video_exists", vid, video_exists_result(vid), FALSE)
    /\ video_cache' = [video_cache EXCEPT ![vid] = video_exists_result(vid)]
    /\ UNCHANGED collection

\* delete_video that leaves the cache as it is
delete_video_keeping_cache(vid) ==
    LET ids == IdsOfRows(rows_of_video(vid)) IN
    /\ op' = Op("delete_video", vid, Some(Cardinality(ids)), FALSE)
    /\ collection' = SelectSeq(collection, LAMBDA r : r.id \notin ids)
    /\ UNCHANGED video_cache

\* ChromaVectorStore.delete_video
delete_video(vid) ==
    LET ids == IdsOfRows(rows_of_video(vid)) IN
    IF ids = {}
    THEN /\ op' = Op("delete_video", vid, Some(0), FALSE)
         /\ UNCHANGED <<collection, video_cache>>
    ELSE /\ op' = Op("delete_video", vid, Some(Len(rows_of_video(vid))), FALSE)
         /\ collection' = SelectSeq(collection, LAMBDA r : r.id \notin ids)
         /\ video_cache' = [video_cache EXCEPT ![vid] = None]

\* the chunks handed to upsert_chunks: two chunks of a video, the first also
\* re-chunked to another text and the second also without its embedding, and
\* a chunk of another video; the ids carry the video as the chunker's do
ChunkNet == TranscriptChunk("v1_0", "v1", 0, 1, DocNet, <<TermsNet>>, TRUE, Some(1))
ChunkNetRechunked ==
    TranscriptChunk("v1_0", "v1", 0, 1, DocNetWeb, <<TermsNet>>, TRUE, Some(1))
ChunkPlain == TranscriptChunk("v1_1", "v1", 1, 2, DocX, <<>>, FALSE, Some(1))
ChunkPlainUnembedded == TranscriptChunk("v1_1", "v1", 1, 2, DocX, <<>>, FALSE, None)
ChunkOther == TranscriptChunk("v2_0", "v2", 0, 1, DocNet, <<TermsNet>>, TRUE, Some(1))

UpsertDomain ==
    { ChunkNet, ChunkNetRechunked, ChunkPlain, ChunkPlainUnembedded, ChunkOther }

\* the lists upsert_chunks is called with: none, one or two chunks, of
\* different ids
UpsertLists ==
    {<<>>} \cup { <<c>> : c \in UpsertDomain }
           \cup { l \in UpsertDomain \X UpsertDomain :
                     l[1].chunk_id # l[2].chunk_id }

Upsert ==
    /\ \E chunk_list \in UpsertLists : upsert_chunks(chunk_list)
    /\ UNCHANGED <<chunkVars, retrieverVars, routeVars>>

VideoExists ==
    /\ \E vid \in Videos : video_exists(vid)
    /\ UNCHANGED <<chunkVars, retrieverVars, routeVars>>

DeleteVideo ==
    /\ \E vid \in Videos : delete_video(vid)
    /\ UNCHANGED <<chunkVars, retrieverVars, routeVars>>

\* the process is started again: the collection is persisted, the cache is not
Restart ==
    /\ op.name # "restart"
    /\ video_cache' = [v \in Videos |-> None]
    /\ op' = Op("restart", None, None, FALSE)
    /\ UNCHANGED <<collection, chunkVars, retrieverVars, routeVars>>

StoreNext ==
    \/ Upsert
    \/ VideoExists
    \/ DeleteVideo
    \/ Restart

\* a new, empty collection
StoreInit ==
    /\ ChunkerIdle
    /\ RetrieverIdle

StoreSpec == StoreInit /\ [][StoreNext]_vars

-----------------------------------------------------------------------------
(* api/routes/transcript.py: /ingest, /upload and their background tasks *)

\* a background task added by a request
Task(run, vid) ==
    [run |-> run, video |-> vid, at |-> "queued", set |-> "none",
     stored |-> FALSE]

\* the answer to a request, and the status the video had when it arrived
Request(route, vid, response) ==
    [route |-> route, video |-> vid, response |-> response,
     found |-> video_status[vid]]

\* video_status[video_id] = {"status": status, ...}
SetStatus(vid, status) == video_status' = [video_status EXCEPT ![vid] = status]

\* the chunks of a video, with their embeddings, as a task hands them to
\* upsert_chunks
ChunksOfVideo(vid) ==
    IF vid = "v1" THEN <<ChunkNet, ChunkPlain>> ELSE <<ChunkOther>>

\* the tasks of a video that were added and have not returned
InFlight(vid) ==
    { k \in 1..Len(tasks) : tasks[k].video = vid /\ tasks[k].at # "returned" }

\* POST /ingest: the handler runs to its return without being suspended
\* (video_exists awaits nothing that suspends)
ingest_transcript(vid, force_refresh) ==
    IF video_status[vid] = "processing"
    THEN /\ request' = Request("ingest", vid, "processing")
         /\ UNCHANGED <<video_status, tasks, storeVars>>
    ELSE IF ~force_refresh /\ video_exists_result(vid) # None
    THEN /\ video_exists(vid)
         /\ request' = Request("ingest", vid, "exists")
         /\ UNCHANGED <<video_status, tasks>>
    ELSE /\ Len(tasks) < MaxTasks
         /\ IF force_refresh THEN UNCHANGED storeVars ELSE video_exists(vid)
         /\ SetStatus(vid, "processing")
         /\ tasks' = Append(tasks, Task("_process_ingestion", vid))
         /\ request' = Request("ingest", vid, "queued")

\* POST /upload with a video_id: the file is rejected (HTTP 400), or the
\* transcript is parsed and a task is added
upload_transcript(vid, parsed) ==
    IF ~parsed
    THEN /\ request' = Request("upload", vid, "rejected")
         /\ UNCHANGED <<video_status, tasks, storeVars>>
    ELSE /\ Len(tasks) < MaxTasks
         /\ SetStatus(vid, "processing")
         /\ tasks' = Append(tasks, Task("_process_uploaded_transcript", vid))
         /\ request' = Request("upload", vid, "queued")
         /\ UNCHANGED storeVars

IngestTranscript ==
    /\ \E vid \in Videos, force_refresh \in BOOLEAN :
          ingest_transcript(vid, force_refresh)
    /\ UNCHANGED <<chunkVars, retrieverVars>>

UploadTranscript ==
    /\ \E vid \in Videos, parsed \in BOOLEAN : upload_transcript(vid, parsed)
    /\ UNCHANGED <<chunkVars, retrieverVars>>

\* a task begins: _process_ingestion runs to `await extractor.extract`,
\* _process_uploaded_transcript chunks and runs to `await embed_batch`
TaskStarts(k) ==
    /\ k \in 1..Len(tasks)
    /\ tasks[k].at = "queued"
    /\ SetStatus(tasks[k].video, "processing")
    /\ tasks' = [tasks EXCEPT ![k].at =
                    IF tasks[k].run = "_process_ingestion"
                    THEN "extract" ELSE "embed_batch"]
    /\ UNCHANGED <<request, storeVars, chunkVars, retrieverVars>>

\* extract that leaves the status as it is when there is no transcript
ExtractReturns_LeavesStatus(k, outcome) ==
    /\ k \in 1..Len(tasks)
    /\ tasks[k].at = "extract"
    /\ IF outcome = "segments"
       THEN /\ SetStatus(tasks[k].video, "processing")
            /\ tasks' = [tasks EXCEPT ![k].at = "embed_batch"]
       ELSE /\ UNCHANGED video_status
            /\ tasks' = [tasks EXCEPT ![k].at = "returned", ![k].set = "error"]
    /\ UNCHANGED <<request, storeVars, chunkVars, retrieverVars>>

\* extractor.extract returns a transcript with segments, one without, one
\* of status "error", or raises: the task chunks and runs to
\* `await embed_batch`, or sets "error" and returns
ExtractReturns(k, outcome) ==
    /\ k \in 1..Len(tasks)
    /\ tasks[k].at = "extract"
    /\ IF outcome = "segments"
       THEN /\ SetStatus(tasks[k].video, "processing")
            /\ tasks' = [tasks EXCEPT ![k].at = "embed_batch"]
       ELSE /\ SetStatus(tasks[k].video, "error")
            /\ tasks' = [tasks EXCEPT ![k].at = "returned", ![k].set = "error"]
    /\ UNCHANGED <<request, storeVars, chunkVars, retrieverVars>>

\* embed_batch returns or raises; after it returned, upsert_chunks (which
\* awaits nothing that suspends) returns or raises, and the task sets
\* "ready" or "error" and returns
EmbedBatchReturns(k, embedded, upserted) ==
    /\ k \in 1..Len(tasks)
    /\ tasks[k].at = "embed_batch"
    /\ IF embedded /\ upserted
       THEN /\ upsert_chunks(ChunksOfVideo(tasks[k].video))
            /\ SetStatus(tasks[k].video, "ready")
            /\ tasks' = [tasks EXCEPT ![k].at = "returned", ![k].set = "ready",
                                      ![k].stored = TRUE]
       ELSE /\ SetStatus(tasks[k].video, "error")
            /\ tasks' = [tasks EXCEPT ![k].at = "returned", ![k].set = "error"]
            /\ UNCHANGED storeVars
    /\ UNCHANGED <<request, chunkVars, retrieverVars>>

ExtractOutcomes == {"segments", "no_segments", "error_status", "raises"}

\* the next step of task k
TaskStep(k) ==
    \/ TaskStarts(k)
    \/ \E outcome \in ExtractOutcomes : ExtractReturns(k, outcome)
    \/ \E embedded, upserted \in BOOLEAN : EmbedBatchReturns(k, embedded, upserted)

TaskStartsSome == \E k \in 1..MaxTasks : TaskStarts(k)

ExtractReturnsSome ==
    \E k \in 1..MaxTasks, outcome \in ExtractOutcomes : ExtractReturns(k, outcome)

EmbedBatchReturnsSome ==
    \E k \in 1..MaxTasks, embedded, upserted \in BOOLEAN :
        EmbedBatchReturns(k, embedded, upserted)

RoutesNext ==
    \/ IngestTranscript
    \/ UploadTranscript
    \/ TaskStartsSome
    \/ ExtractReturnsSome
    \/ EmbedBatchReturnsSome

\* the module as imported: an empty video_status, a new store
RoutesInit ==
    /\ ChunkerIdle
    /\ RetrieverIdle

RoutesSpec == RoutesInit /\ [][RoutesNext]_vars

\* the event loop runs every task that can take a step, and every
\* dependency call returns or raises
RoutesLiveSpec ==
    /\ RoutesInit
    /\ [][RoutesNext]_vars
    /\ \A k \in 1..MaxTasks : WF_vars(TaskStep(k))

-----------------------------------------------------------------------------
(* MultiStrategyRetriever *)

\* the video the request is about
RequestVideo == "v1"

\* settings.RETRIEVAL_MAX_CHUNKS
RETRIEVAL_MAX_CHUNKS == 8

\* MultiStrategyRetriever._retrieve_temporal
retrieve_temporal(vid, ts, window) ==
    query_by_time_range(vid, Max(0, ts - window), ts + window, ts)

\* _retrieve_foundational that ranks the candidates with the fewest term
\* matches first
retrieve_foundational_fewest_first(vid, terms, before_timestamp) ==
    LET cs == query_by_metadata(vid, TRUE, before_timestamp, terms,
                                max_per_strategy * 2)
        terms_lower == { Lower(t) : t \in { u \in terms : u # <<>> } }
        score(c) == Cardinality({ term \in terms_lower :
                                    Contains(Lower(c.text), term) })
        scored_chunks == SelectSeq(cs, LAMBDA c : score(c) > 0)
    IN SortByKey(scored_chunks,
                 [k \in 1..Len(scored_chunks) |->
                    <<score(scored_chunks[k]), scored_chunks[k].start_time>>])

\* MultiStrategyRetriever._retrieve_foundational
retrieve_foundational(vid, terms, before_timestamp) ==
    LET cs == query_by_metadata(vid, TRUE, before_timestamp, terms,
                                max_per_strategy * 2)
        terms_lower == { Lower(t) : t \in { u \in terms : u # <<>> } }
        score(c) == Cardinality({ term \in terms_lower :
                                    Contains(Lower(c.text), term) })
        scored_chunks == SelectSeq(cs, LAMBDA c : score(c) > 0)
    IN SortByKey(scored_chunks,
                 [k \in 1..Len(scored_chunks) |->
                    <<-score(scored_chunks[k]), scored_chunks[k].start_time>>])

\* _retrieve_semantic with the least similar chunks first
retrieve_semantic_least_similar_first(vid, distances, exclude_ids) ==
    LET found == similarity_search(vid, distances, max_per_strategy * 3)
        filtered == SelectSeq(found, LAMBDA r : r.chunk_id \notin exclude_ids)
    IN SortByKey(filtered,
                 [k \in 1..Len(filtered) |->
                    <<OrDefault(filtered[k].similarity_score, 0), 0>>])

\* MultiStrategyRetriever._retrieve_semantic, after the embedding is there
retrieve_semantic(vid, distances, exclude_ids) ==
    LET found == similarity_search(vid, distances, max_per_strategy * 3)
        filtered == SelectSeq(found, LAMBDA r : r.chunk_id \notin exclude_ids)
    IN SortByKey(filtered,
                 [k \in 1..Len(filtered) |->
                    <<-OrDefault(filtered[k].similarity_score, 0), 0>>])

\* the loops without their "not in seen_chunk_ids" test
RECURSIVE add_regardless(_, _, _, _)
add_regardless(candidates, res, seen, tag) ==
    IF candidates = <<>> THEN [results |-> res, seen |-> seen]
    ELSE LET chunk == Head(candidates) IN
         add_regardless(Tail(candidates),
                        Append(res, [chunk EXCEPT !.relevance_type = tag]),
                        seen \cup {chunk.chunk_id}, tag)

\* the loops of retrieve(), lines 101-105, 125-129 and 145-149: append the
\* candidates whose id is not seen yet, tagged, and register their ids
RECURSIVE add_unseen(_, _, _, _)
add_unseen(candidates, res, seen, tag) ==
    IF candidates = <<>> THEN [results |-> res, seen |-> seen]
    ELSE LET chunk == Head(candidates) IN
         IF chunk.chunk_id \notin seen
         THEN add_unseen(Tail(candidates),
                         Append(res, [chunk EXCEPT !.relevance_type = tag]),
                         seen \cup {chunk.chunk_id}, tag)
         ELSE add_unseen(Tail(candidates), res, seen, tag)

\* lines 113-116: the key terms of all temporal chunks
temporal_terms_of(cs) ==
    UNION { { cs[k].key_terms[m] : m \in 1..Len(cs[k].key_terms) } :
            k \in 1..Len(cs) }

\* retrieve(), lines 88-99: the call, up to the await of the time-range query
RetrieveCall ==
    /\ rpc = "idle"
    /\ \E ts \in {0, 1, 2}, max_total_chunks \in {None, Some(1), Some(2)} :
          /\ timestamp' = ts
          /\ max_total' = OrDefault(max_total_chunks, RETRIEVAL_MAX_CHUNKS)
    /\ results' = <<>>
    /\ seen_chunk_ids' = {}
    /\ rpc' = "temporal"
    /\ UNCHANGED <<chunkVars, storeVars, routeVars, failed_calls, temporal_window,
                   max_per_strategy, semantic_chunks,
                   temporal_chunks, metadata_queried, retrieved>>

\* the time-range query returns and the metadata query is made even when no
\* temporal chunk or no key term was found
TemporalReturns_AlwaysQueriesMetadata ==
    /\ rpc = "temporal"
    /\ LET found == retrieve_temporal(RequestVideo, timestamp, temporal_window)
           merged == add_unseen(SliceTo(found, max_per_strategy), results,
                                seen_chunk_ids, "temporal")
       IN /\ temporal_chunks' = found
          /\ results' = merged.results
          /\ seen_chunk_ids' = merged.seen
          /\ rpc' = "foundational" /\ metadata_queried' = TRUE
    /\ UNCHANGED <<chunkVars, storeVars, routeVars, failed_calls, temporal_window,
                   max_per_strategy, semantic_chunks,
                   timestamp, max_total, retrieved>>

\* retrieve(), lines 95-123 and 135-142: the time-range query returns; the
\* temporal chunks are merged and either the metadata query or the embedding
\* of the search query is awaited
TemporalReturns ==
    /\ rpc = "temporal"
    /\ LET found == retrieve_temporal(RequestVideo, timestamp, temporal_window)
           merged == add_unseen(SliceTo(found, max_per_strategy), results,
                                seen_chunk_ids, "temporal")
       IN /\ temporal_chunks' = found
          /\ results' = merged.results
          /\ seen_chunk_ids' = merged.seen
          /\ IF found # <<>> /\ temporal_terms_of(found) # {}
             THEN rpc' = "foundational" /\ metadata_queried' = TRUE
             ELSE rpc' = "embed" /\ UNCHANGED metadata_queried
    /\ UNCHANGED <<chunkVars, storeVars, routeVars, failed_calls, temporal_window,
                   max_per_strategy, semantic_chunks,
                   timestamp, max_total, retrieved>>

\* retrieve(), lines 119-129 and 135-142: the metadata query returns; the
\* foundational chunks are ranked and merged, the embedding is awaited
FoundationalReturns ==
    /\ rpc = "foundational"
    /\ LET foundational_chunks ==
               retrieve_foundational(RequestVideo,
                                     temporal_terms_of(temporal_chunks), timestamp)
           merged == add_unseen(SliceTo(foundational_chunks, max_per_strategy),
                                results, seen_chunk_ids, "foundational")
       IN /\ results' = merged.results
          /\ seen_chunk_ids' = merged.seen
    /\ rpc' = "embed"
    /\ UNCHANGED <<chunkVars, storeVars, routeVars, failed_calls, temporal_window,
                   max_per_strategy, semantic_chunks,
                   timestamp, max_total, temporal_chunks, metadata_queried,
                   retrieved>>

\* _retrieve_semantic, lines 231-238: the embedding returns, the similarity
\* search is awaited
EmbedReturns ==
    /\ rpc = "embed"
    /\ rpc' = "search"
    /\ UNCHANGED <<chunkVars, storeVars, routeVars, failed_calls, temporal_window,
                   max_per_strategy, semantic_chunks,
                   timestamp, max_total, temporal_chunks, results,
                   seen_chunk_ids, metadata_queried, retrieved>>

\* the similarity search returns and the whole sorted list is returned, uncut
SearchReturns_ReturnsAll ==
    /\ rpc = "search"
    /\ \E distances \in [1..Len(collection) -> {0, 1}] :
          LET semantic_chunks_found ==
                  retrieve_semantic(RequestVideo, distances, seen_chunk_ids)
              remaining_slots == max_total - Len(results)
              merged == add_unseen(SliceTo(semantic_chunks_found, remaining_slots),
                                   results, seen_chunk_ids, "semantic")
              sorted == SortByKey(merged.results,
                                  [k \in 1..Len(merged.results) |->
                                     <<merged.results[k].start_time, 0>>])
          IN /\ semantic_chunks' = semantic_chunks_found
             /\ results' = sorted
             /\ seen_chunk_ids' = merged.seen
             /\ retrieved' = sorted
    /\ rpc' = "done"
    /\ UNCHANGED <<chunkVars, storeVars, routeVars, failed_calls, temporal_window,
                   max_per_strategy,
                   timestamp, max_total, temporal_chunks, metadata_queried>>

\* lines 240-246 and 144-154: the similarity search returns; the semantic
\* chunks fill the remaining slots, the list is sorted, cut and returned
SearchReturns ==
    /\ rpc = "search"
    /\ \E distances \in [1..Len(collection) -> {0, 1}] :
          LET semantic_chunks_found ==
                  retrieve_semantic(RequestVideo, distances, seen_chunk_ids)
              remaining_slots == max_total - Len(results)
              merged == add_unseen(SliceTo(semantic_chunks_found, remaining_slots),
                                   results, seen_chunk_ids, "semantic")
              sorted == SortByKey(merged.results,
                                  [k \in 1..Len(merged.results) |->
                                     <<merged.results[k].start_time, 0>>])
          IN /\ semantic_chunks' = semantic_chunks_found
             /\ results' = sorted
             /\ seen_chunk_ids' = merged.seen
             /\ retrieved' = SliceTo(sorted, max_total)
    /\ rpc' = "done"
    /\ UNCHANGED <<chunkVars, storeVars, routeVars, failed_calls, temporal_window,
                   max_per_strategy,
                   timestamp, max_total, temporal_chunks, metadata_queried>>

RetrieveNext ==
    \/ RetrieveCall
    \/ TemporalReturns
    \/ FoundationalReturns
    \/ EmbedReturns
    \/ SearchReturns

\* a chunk as it is handed to upsert_chunks, without its id
Stored(vid, start, end_, doc, terms, found) ==
    [ video_id |-> vid, start_time |-> start, end_time |-> end_,
      document |-> doc, key_terms |-> terms, is_foundational |-> found ]

\* uses the terms "net" and "web"
StoredUse == Stored("v1", 1, 2, DocNetWeb, TermsNetWeb, FALSE)

\* has no key terms
StoredPlain == Stored("v1", 2, 2, DocX, TermsNone, FALSE)

\* foundational chunks that mention "net"
StoredDefEarly == Stored("v1", 0, 0, DocLowerNetWeb, TermsNet, TRUE)
StoredDefShort == Stored("v1", 0, 1, DocNet, TermsNone, TRUE)
StoredDefLate == Stored("v1", 1, 1, DocLowerNetWeb, TermsNet, TRUE)

\* a chunk of another video
StoredOther == Stored("v2", 1, 1, DocLowerNetWeb, TermsNet, TRUE)

\* the stored chunks the collection is filled from
StoredDomain ==
    { StoredUse, StoredPlain, StoredDefEarly, StoredDefShort, StoredDefLate,
      StoredOther }

\* the collection holds stored[k] under the id ids[k]
RowsOf(stored, ids) ==
    List([k \in 1..Len(stored) |->
        Row(ids[k], stored[k].video_id, stored[k].start_time, stored[k].end_time,
            stored[k].document, stored[k].key_terms, stored[k].is_foundational)])

RetrieverConfigured ==
    /\ StoreFresh
    /\ semantic_chunks = <<>>
    /\ failed_calls = {}
    /\ temporal_window = 1
    /\ max_per_strategy \in {1, 2}
    /\ rpc = "idle"
    /\ timestamp = 0
    /\ max_total = 0
    /\ temporal_chunks = <<>>
    /\ results = <<>>
    /\ seen_chunk_ids = {}
    /\ metadata_queried = FALSE
    /\ retrieved = <<>>

\* a Chroma collection: every id is stored once, and the chunks differ
RetrieveInit ==
    /\ ChunkerIdle
    /\ \E n \in 0..MaxStored :
          \E stored \in [1..n -> StoredDomain] :
              /\ \A i, j \in 1..n : i < j => stored[i] # stored[j]
              /\ collection = RowsOf(stored, [k \in 1..n |-> k])
    /\ RetrieverConfigured

RetrieveSpec == RetrieveInit /\ [][RetrieveNext]_vars

\* a video of four chunks: one in use of the terms, two earlier foundational
\* ones and one without key terms
FourChunkStored == <<StoredUse, StoredDefEarly, StoredPlain, StoredDefShort>>

\* the four chunks, stored in one of the rotations of their order
FourChunkInit ==
    /\ ChunkerIdle
    /\ \E first \in 1..Len(FourChunkStored) :
          LET n == Len(FourChunkStored)
              ids == [k \in 1..n |-> ((first + k - 2) % n) + 1]
          IN collection = RowsOf([k \in 1..n |-> FourChunkStored[ids[k]]], ids)
    /\ RetrieverConfigured

FourChunkSpec == FourChunkInit /\ [][RetrieveNext]_vars

\* an injected index that does not keep its ids unique: the same chunk id may
\* come back several times in one response
RawIndexDomain == { StoredUse, StoredDefEarly }

RawIndexInit ==
    /\ ChunkerIdle
    /\ \E n \in 0..MaxStored :
          \E stored \in [1..n -> RawIndexDomain], ids \in [1..n -> {1, 2}] :
              collection = RowsOf(stored, ids)
    /\ RetrieverConfigured

RawIndexSpec == RawIndexInit /\ [][RetrieveNext]_vars

-----------------------------------------------------------------------------
(* retrieve() with failing dependencies and cancellation *)

\* the awaits of retrieve(): rpc names the call it is suspended at
SuspensionPoints == {"temporal", "foundational", "embed", "search"}

\* a call into the vector index raises; vector_store.py and retrieve() have no
\* handler, so the exception leaves retrieve()
IndexCallFails ==
    /\ rpc \in {"temporal", "foundational", "search"}
    /\ failed_calls' = failed_calls \cup {rpc}
    /\ rpc' = "raised"
    /\ UNCHANGED <<chunkVars, storeVars, routeVars, temporal_window, max_per_strategy,
                   timestamp, max_total, temporal_chunks, results,
                   seen_chunk_ids, metadata_queried, semantic_chunks, retrieved>>

\* EmbeddingService.embed, lines 56-68: the embeddings request raises or times
\* out; the handler returns a zero vector and _retrieve_semantic goes on to
\* the similarity search
EmbedFails ==
    /\ rpc = "embed"
    /\ failed_calls' = failed_calls \cup {"embed"}
    /\ rpc' = "search"
    /\ UNCHANGED <<chunkVars, storeVars, routeVars, temporal_window, max_per_strategy,
                   timestamp, max_total, temporal_chunks, results,
                   seen_chunk_ids, metadata_queried, semantic_chunks, retrieved>>

\* a cancellation that the handler in embed() takes for a failed request
Cancel_SwallowedByEmbed ==
    /\ rpc \in SuspensionPoints
    /\ failed_calls' = failed_calls \cup {"cancel"}
    /\ rpc' = IF rpc = "embed" THEN "search" ELSE "cancelled"
    /\ UNCHANGED <<chunkVars, storeVars, routeVars, temporal_window, max_per_strategy,
                   timestamp, max_total, temporal_chunks, results,
                   seen_chunk_ids, metadata_queried, semantic_chunks, retrieved>>

\* the task running retrieve() is cancelled while suspended: CancelledError is
\* raised at the await; it is not an Exception, so the handler of embed()
\* (line 65) does not catch it, and retrieve() has none
Cancel ==
    /\ rpc \in SuspensionPoints
    /\ failed_calls' = failed_calls \cup {"cancel"}
    /\ rpc' = "cancelled"
    /\ UNCHANGED <<chunkVars, storeVars, routeVars, temporal_window, max_per_strategy,
                   timestamp, max_total, temporal_chunks, results,
                   seen_chunk_ids, metadata_queried, semantic_chunks, retrieved>>

FaultNext ==
    \/ RetrieveCall
    \/ TemporalReturns
    \/ FoundationalReturns
    \/ EmbedReturns
    \/ SearchReturns
    \/ IndexCallFails
    \/ EmbedFails
    \/ Cancel

\* a retriever that takes one chunk per strategy
FaultInit == RetrieveInit /\ max_per_strategy = 1

FaultSpec == FaultInit /\ [][FaultNext]_vars

-----------------------------------------------------------------------------
(* The retrieval scenario: 3 temporal, 3 foundational, 4 semantic candidates *)

\* chunks around the pause, chunks that define "net" early in the video, and
\* chunks late in the video; the k-th has the id k
ScenarioStored ==
    << Stored("v1", 170, 180, DocX, TermsNone, FALSE),
       Stored("v1", 60, 90, DocNetWeb, TermsNetWeb, FALSE),
       Stored("v1", 0, 10, DocLowerNetWeb, TermsNet, TRUE),
       Stored("v1", 180, 190, DocX, TermsNone, FALSE),
       Stored("v1", 90, 120, DocNetWeb, TermsNetWeb, FALSE),
       Stored("v1", 10, 20, DocNet, TermsNone, TRUE),
       Stored("v1", 190, 200, DocX, TermsNone, FALSE),
       Stored("v1", 120, 150, DocNetWeb, TermsNet, FALSE),
       Stored("v1", 20, 30, DocLowerNetWeb, TermsNet, TRUE),
       Stored("v1", 200, 210, DocX, TermsNone, FALSE) >>

ScenarioTemporalIds == {2, 5, 8}
ScenarioFoundationalIds == {3, 6, 9}
ScenarioSemanticIds == {1, 4, 7, 10}

\* the retriever built with the settings' defaults over the scenario's chunks
ScenarioRetrieveInit ==
    /\ ChunkerIdle
    /\ StoreFresh
    /\ \E first \in 1..3 :
          LET n == Len(ScenarioStored)
              \* the stored order: interleaved, starting at one of the first chunks
              ids == [k \in 1..n |-> ((first + k - 2) % n) + 1]
          IN collection = RowsOf([k \in 1..n |-> ScenarioStored[ids[k]]], ids)
    /\ temporal_window = 60
    /\ max_per_strategy = 3
    /\ rpc = "idle"
    /\ timestamp = 0
    /\ max_total = 0
    /\ temporal_chunks = <<>>
    /\ results = <<>>
    /\ seen_chunk_ids = {}
    /\ metadata_queried = FALSE
    /\ semantic_chunks = <<>>
    /\ failed_calls = {}
    /\ retrieved = <<>>

\* retrieve(), lines 88-99, called at a pause inside the middle chunks with
\* max_total 8, given or defaulted
ScenarioCall ==
    /\ rpc = "idle"
    /\ \E ts \in {100, 110}, max_total_chunks \in {None, Some(8)} :
          /\ timestamp' = ts
          /\ max_total' = OrDefault(max_total_chunks, RETRIEVAL_MAX_CHUNKS)
    /\ results' = <<>>
    /\ seen_chunk_ids' = {}
    /\ rpc' = "temporal"
    /\ UNCHANGED <<chunkVars, storeVars, routeVars, failed_calls, temporal_window,
                   max_per_strategy, semantic_chunks,
                   temporal_chunks, metadata_queried, retrieved>>

ScenarioRetrieveNext ==
    \/ ScenarioCall
    \/ TemporalReturns
    \/ FoundationalReturns
    \/ EmbedReturns
    \/ SearchReturns

ScenarioRetrieveSpec == ScenarioRetrieveInit /\ [][ScenarioRetrieveNext]_vars

-----------------------------------------------------------------------------
(* Properties of SemanticChunker.chunk *)

\* chunk() has returned its list
Returned == cpc = "done"

\* C1: every returned chunk other than the last has duration <= max_duration
C1_MaxDuration ==
    Returned =>
        \A i \in 1..(Len(chunks) - 1) : chunks[i].duration <= max_duration

\* C2: no returned chunk has negative duration (end_time >= start_time)
C2_NoNegativeDuration ==
    Returned =>
        \A i \in 1..Len(chunks) : chunks[i].end_time >= chunks[i].start_time

\* C3: every returned chunk except the final one has duration >= min_duration
C3_MinDuration ==
    Returned =>
        \A i \in 1..(Len(chunks) - 1) : chunks[i].duration >= min_duration

\* C4: consecutive returned chunks have non-decreasing start_time
C4_StartsNonDecreasing ==
    Returned =>
        \A i \in 1..(Len(chunks) - 1) :
            chunks[i].start_time <= chunks[i + 1].start_time

\* C5: the i-th returned chunk (0-based) has sequence i, and the chunk ids
\* of one output are pairwise distinct
C5_SequenceAndIds ==
    Returned =>
        /\ \A i \in 1..Len(chunks) : chunks[i].sequence = i - 1
        /\ \A i, j \in 1..Len(chunks) :
               i # j => chunks[i].chunk_id # chunks[j].chunk_id

C5_Witness ==
    /\ Returned
    /\ Len(chunks) >= 3
    /\ chunks[1].start_time = chunks[3].start_time

\* C6: the text of every input segment is part of the text of at least one
\* returned chunk
C6_NoTextDropped ==
    Returned =>
        \A k \in 1..Len(segments) :
            \E i \in 1..Len(chunks) : Contains(chunks[i].text, segments[k].text)

C6_Witness ==
    /\ Returned
    /\ Len(segments) = 3
    /\ Len(chunks) >= 2
    /\ segments[1].text # segments[2].text

\* C7: the interval [start, end) of every input segment lies in the union of
\* the returned chunks' intervals [start_time, end_time)
C7_IntervalCoverage ==
    Returned =>
        \A k \in 1..Len(segments) :
            \A t \in segments[k].start..(end(segments[k]) - 1) :
                \E i \in 1..Len(chunks) :
                    chunks[i].start_time <= t /\ t + 1 <= chunks[i].end_time

\* C8: chunk() returns the empty list if and only if its input is empty
C8_EmptyIffEmpty ==
    Returned => (chunks = <<>> <=> segments = <<>>)

C8_Witness == Returned /\ segments # <<>> /\ Len(chunks) = 1

IsScenario ==
    /\ segments = ScenarioSegments
    /\ min_duration = 5 /\ max_duration = 15 /\ overlap_duration = 2

-----------------------------------------------------------------------------
(* Properties of MultiStrategyRetriever.retrieve *)

RetrieveReturned == rpc = "done"

\* the ids of the chunks of a list
IdsOf(cs) == { cs[k].chunk_id : k \in 1..Len(cs) }

\* some id occurs at two positions of the list
HasRepeatedId(cs) ==
    \E i, j \in 1..Len(cs) : i < j /\ cs[i].chunk_id = cs[j].chunk_id

\* C10: whatever the index answers, also when one id comes back from several
\* strategies or several times from one strategy, no two elements of the
\* returned list share a chunk_id.
C10_NoSharedChunkId ==
    RetrieveReturned => ~HasRepeatedId(retrieved)

\* a call has returned chunks although the time-range response held one id
\* twice among the chunks it selects and the metadata response ranked first a
\* chunk the temporal strategy had selected
C10_Witness ==
    /\ RetrieveReturned
    /\ retrieved # <<>>
    /\ HasRepeatedId(SliceTo(temporal_chunks, max_per_strategy))
    /\ metadata_queried
    /\ LET foundational_chunks ==
               retrieve_foundational(RequestVideo,
                                     temporal_terms_of(temporal_chunks), timestamp)
       IN /\ foundational_chunks # <<>>
          /\ foundational_chunks[1].chunk_id
                \in IdsOf(SliceTo(temporal_chunks, max_per_strategy))


\* the relevance types of the chunks of a list
TagsOf(cs) == { cs[k].relevance_type : k \in 1..Len(cs) }

\* the number of chunks strategies 1 and 2 selected
SelectedBeforeSemantic ==
    Cardinality({ k \in 1..Len(results) : results[k].relevance_type # "semantic" })

\* C11: the returned list is sorted by non-decreasing start_time, whichever
\* strategy surfaced each chunk, and also after the cut to max_total.
C11_SortedByStartTime ==
    RetrieveReturned =>
        \A i, j \in 1..Len(retrieved) :
            i < j => retrieved[i].start_time <= retrieved[j].start_time

\* a returned list that was cut, holds chunks of two strategies and chunks of
\* different start times
C11_Witness ==
    /\ RetrieveReturned
    /\ Len(results) > Len(retrieved)
    /\ Cardinality(TagsOf(retrieved)) >= 2
    /\ \E i, j \in 1..Len(retrieved) :
          retrieved[i].start_time < retrieved[j].start_time

\* C12: with max_total > 0 the returned list holds at most max_total chunks,
\* also when strategies 1 and 2 alone selected more than max_total.
C12_AtMostMaxTotal ==
    (RetrieveReturned /\ max_total > 0) => Len(retrieved) <= max_total

\* strategies 1 and 2 selected more than max_total chunks and max_total of
\* them were returned
C12_Witness ==
    /\ RetrieveReturned
    /\ max_total > 0
    /\ SelectedBeforeSemantic > max_total
    /\ Len(retrieved) = max_total

\* C13: every returned chunk tagged "foundational" ends strictly before the
\* timestamp of the call.
C13_FoundationalEndsBefore ==
    RetrieveReturned =>
        \A k \in 1..Len(retrieved) :
            retrieved[k].relevance_type = "foundational"
                => retrieved[k].end_time < timestamp

\* a foundational chunk was returned while the collection also holds a
\* foundational chunk of the video that does not end before the timestamp
C13_Witness ==
    /\ RetrieveReturned
    /\ "foundational" \in TagsOf(retrieved)
    /\ \E k \in 1..Len(collection) :
          /\ collection[k].video_id = RequestVideo
          /\ collection[k].is_foundational
          /\ collection[k].end_time >= timestamp
          /\ collection[k].id \notin IdsOf(retrieved)

\* C14: when the time-range query returns no chunk, the metadata query is
\* never made during the call and every returned chunk is tagged "semantic".
C14_NoTemporalNoFoundational ==
    (rpc \in {"foundational", "embed", "search", "done"} /\ temporal_chunks = <<>>)
        => /\ ~metadata_queried
           /\ RetrieveReturned => TagsOf(retrieved) \subseteq {"semantic"}

\* no temporal chunk was found, chunks were returned, and the collection holds
\* a foundational chunk of the video that ends before the timestamp
C14_Witness ==
    /\ RetrieveReturned
    /\ temporal_chunks = <<>>
    /\ retrieved # <<>>
    /\ \E k \in 1..Len(collection) :
          /\ collection[k].video_id = RequestVideo
          /\ collection[k].is_foundational
          /\ collection[k].end_time < timestamp


\* the ids of the chunks of a list that carry the tag
IdsTagged(cs, tag) ==
    { cs[k].chunk_id : k \in { m \in 1..Len(cs) : cs[m].relevance_type = tag } }

\* the similarity score of the chunk with the id in what _retrieve_semantic returned
SimilarityOf(id) ==
    LET k == CHOOSE m \in 1..Len(semantic_chunks) : semantic_chunks[m].chunk_id = id
    IN OrDefault(semantic_chunks[k].similarity_score, 0)

\* C15: with max_total 8 and max_per_strategy 3, 3 temporal chunks, 3 other
\* foundational chunks matching a temporal key term and 4 further semantic
\* candidates give exactly 8 chunks: the 3 temporal, the 3 foundational and
\* the 2 semantic candidates of highest similarity among the unselected.
C15_ScenarioEight ==
    RetrieveReturned =>
        /\ Len(retrieved) = 8
        /\ IdsTagged(retrieved, "temporal") = ScenarioTemporalIds
        /\ IdsTagged(retrieved, "foundational") = ScenarioFoundationalIds
        /\ Cardinality(IdsTagged(retrieved, "semantic")) = 2
        /\ IdsTagged(retrieved, "semantic") \subseteq ScenarioSemanticIds
        /\ \A chosen \in IdsTagged(retrieved, "semantic") :
              \A other \in IdsOf(semantic_chunks) \ IdsOf(retrieved) :
                  SimilarityOf(other) <= SimilarityOf(chosen)

\* the scenario's call has returned, and a semantic candidate that was not
\* returned was less similar than a returned one
C15_Witness ==
    /\ RetrieveReturned
    /\ Len(collection) = 10
    /\ Len(retrieved) = 8
    /\ \E chosen \in IdsTagged(retrieved, "semantic") :
          \E other \in IdsOf(semantic_chunks) \ IdsOf(retrieved) :
              SimilarityOf(other) < SimilarityOf(chosen)


\* C16: if the embedding call or an index call of retrieve() fails, the caller
\* gets a failure, never a normally returned list.
C16_FailureSurfaces ==
    failed_calls \cap SuspensionPoints # {} => ~RetrieveReturned

\* C17: a retrieve() cancelled at one of its suspension points delivers no
\* list to its caller, whatever it had merged so far.
C17_CancelledDeliversNothing ==
    "cancel" \in failed_calls => rpc = "cancelled" /\ retrieved = <<>>

\* a call was cancelled at the embedding call, after it had merged chunks
C17_Witness ==
    /\ rpc = "cancelled"
    /\ "cancel" \in failed_calls
    /\ results # <<>>
    /\ temporal_chunks # <<>>


\* C18: two chunk() calls on the same fragments, video_id and configuration
\* return lists that agree element by element on chunk_id, sequence,
\* start_time, end_time, text, key_terms and is_foundational.
C18_SameChunksOnRerun ==
    (calls = 2 /\ Returned) =>
        /\ Len(chunks) = Len(first_result)
        /\ \A k \in 1..Len(chunks) :
              /\ chunks[k].chunk_id = first_result[k].chunk_id
              /\ chunks[k].sequence = first_result[k].sequence
              /\ chunks[k].start_time = first_result[k].start_time
              /\ chunks[k].end_time = first_result[k].end_time
              /\ chunks[k].text = first_result[k].text
              /\ chunks[k].key_terms = first_result[k].key_terms
              /\ chunks[k].is_foundational = first_result[k].is_foundational

\* the second call has returned several chunks, one with key terms, created
\* at another time than those of the first call
C18_Witness ==
    /\ calls = 2
    /\ Returned
    /\ Len(chunks) >= 2
    /\ \E k \in 1..Len(chunks) : chunks[k].key_terms # <<>>
    /\ chunks[1].created_at # first_result[1].created_at

\* the chunks of a list that upsert_chunks stores: those with an embedding
EmbeddedOf(chunk_list) == SelectSeq(chunk_list, LAMBDA c : c.embedding # None)

\* C19: upsert_chunks is idempotent on chunk ids: after an upsert the index
\* holds exactly one entry per chunk_id, the ids stored before together with
\* those of the embedded chunks of the list, and upserting the same list a
\* second time leaves the index with the same entries as after the first.
C19_UpsertIdempotent ==
    op.name = "upsert_chunks" =>
        /\ \A j, k \in 1..Len(collection) :
              collection[j].id = collection[k].id => j = k
        /\ IdsOfRows(collection) =
              IdsOfRows(op.before) \cup IdsOf(EmbeddedOf(op.arg))
        /\ op.again => collection = op.before

\* a list with two embedded chunks has been upserted a second time into an
\* index that also holds a chunk of another video
C19_Witness ==
    /\ op.name = "upsert_chunks"
    /\ op.again
    /\ Len(EmbeddedOf(op.arg)) = 2
    /\ Len(collection) = 3

\* every query of the store for a video returns nothing
NoQueryReturns(vid) ==
    /\ query_by_time_range(vid, 0, MaxTime, 0) = <<>>
    /\ \A found \in BOOLEAN :
          query_by_metadata(vid, found, MaxTime + 1, {}, 10) = <<>>
    /\ similarity_search(vid, [k \in 1..Len(collection) |-> 0],
                         Len(collection)) = <<>>

\* C20: after upsert_chunks has stored an embedded chunk of a video,
\* video_exists returns a record for the video and query_by_time_range over a
\* range enclosing the chunks returns them; a delete_video of a video with
\* stored chunks returns the number of chunks it removed, and after it
\* video_exists returns None and no query returns a chunk of the video.
C20_StoreRoundTrip ==
    /\ op.name = "upsert_chunks" =>
          \A k \in 1..Len(EmbeddedOf(op.arg)) :
             LET c == EmbeddedOf(op.arg)[k]
                 found == query_by_time_range(c.video_id, 0, MaxTime, 0)
             IN /\ video_exists_result(c.video_id) # None
                /\ \E j \in 1..Len(found) :
                      /\ found[j].chunk_id = c.chunk_id
                      /\ found[j].text = c.text
                      /\ found[j].start_time = c.start_time
                      /\ found[j].end_time = c.end_time
    /\ op.name = "delete_video" =>
          /\ op.ret = Some(Len(op.before) - Len(collection))
          /\ op.ret # Some(0) =>
                /\ video_exists_result(op.arg) = None
                /\ NoQueryReturns(op.arg)

\* delete_video has removed the two chunks of a video that upsert_chunks
\* stored, and a chunk of another video is left
C20_Witness ==
    /\ op.name = "delete_video"
    /\ op.ret = Some(2)
    /\ Len(collection) = 1

\* C21: for every video at most one ingestion task is in flight at any time,
\* and a request that finds the video's status at "processing" never adds a
\* task.
C21_SingleWriterPerVideo ==
    /\ \A v \in Videos : Cardinality(InFlight(v)) <= 1
    /\ request.response = "queued" => request.found # "processing"

\* C30: every task that was added eventually sets the status of its video
\* to "ready" or "error" and returns; while no task of a video is in flight
\* its status is not "processing"; and the status is "ready" only if a task
\* of the video had upsert_chunks return.
C30_TaskSettlesStatus ==
    /\ [](\A v \in Videos :
            /\ InFlight(v) = {} => video_status[v] # "processing"
            /\ video_status[v] = "ready" =>
                  \E k \in 1..Len(tasks) : tasks[k].video = v /\ tasks[k].stored)
    /\ \A k \in 1..MaxTasks :
          (Len(tasks) >= k) ~>
             (/\ Len(tasks) >= k
              /\ tasks[k].at = "returned"
              /\ tasks[k].set \in {"ready", "error"})

\* an ingestion task has stored its chunks and set "ready", and an upload
\* task of another video has set "error"
C30_Witness ==
    /\ Len(tasks) = 2
    /\ tasks[1].run = "_process_ingestion"
    /\ tasks[1].set = "ready"
    /\ tasks[2].run = "_process_uploaded_transcript"
    /\ tasks[2].set = "error"
    /\ tasks[1].video # tasks[2].video
    /\ video_status[tasks[1].video] = "ready"
    /\ video_status[tasks[2].video] = "error"

\* one iteration of the scan of chunk() is taken
ScanStep == cpc = "scan" /\ idx <= Len(segments) /\ idx' = idx + 1

\* the iteration emits a chunk
Emits == Len(chunks') = Len(chunks) + 1

\* C22: an iteration of the scan emits a chunk before appending fragment f
\* if and only if the buffer is not empty and f.end - current_start reaches
\* max_duration, or reaches min_duration while f's text opens with a marker;
\* the chunk is made of the buffer; in every case f's text is then the last
\* of the buffer and current_end is f.end.
C22_SplitIffDue ==
    [][ScanStep =>
          LET f == segments[idx]
              due == /\ current_texts # <<>>
                     /\ \/ end(f) - current_start >= max_duration
                        \/ /\ end(f) - current_start >= min_duration
                           /\ is_natural_boundary(f.text)
          IN /\ Emits <=> due
             /\ due => /\ SubSeq(chunks', 1, Len(chunks)) = chunks
                       /\ chunks'[Len(chunks')].text = Strip(Join(current_texts))
                       /\ chunks'[Len(chunks')].start_time = current_start
                       /\ chunks'[Len(chunks')].end_time = current_end
             /\ ~due => /\ chunks' = chunks
                        /\ current_texts' = Append(current_texts, f.text)
             /\ current_texts' # <<>>
             /\ current_texts'[Len(current_texts')] = f.text
             /\ current_end' = end(f)]_vars

\* the second fragment opened with a marker and was split off below
\* max_duration
C22_Witness ==
    /\ cpc = "scan"
    /\ idx = 3
    /\ Len(chunks) = 1
    /\ is_natural_boundary(segments[2].text)
    /\ end(segments[2]) - segments[1].start < max_duration
    /\ end(segments[2]) - segments[1].start >= min_duration

\* the positions of the fragments whose interval lies in the last
\* overlap_duration seconds of a chunk that ended at emitted_end
InOverlapWindow(emitted_end) ==
    SelectSeq([k \in 1..Len(segments) |-> k],
              LAMBDA k : /\ segments[k].start >= emitted_end - overlap_duration
                         /\ end(segments[k]) <= emitted_end)

\* C23: at every split the buffer of the following chunk is seeded with
\* exactly the fragments with start >= emitted.end - overlap_duration and
\* end <= emitted.end, before the current fragment is appended; if there is
\* none, the buffer holds the current fragment only and the new chunk
\* starts at the current fragment's start.
C23_OverlapSeed ==
    [][(ScanStep /\ Emits) =>
          LET f == segments[idx]
              seed == InOverlapWindow(current_end)
          IN /\ current_texts' =
                   Append([k \in 1..Len(seed) |-> segments[seed[k]].text], f.text)
             /\ seed = <<>> => /\ current_texts' = <<f.text>>
                               /\ current_start' = f.start]_vars

\* after the first split the buffer holds a seeded fragment and the current
\* one, and after a later split the current one only
C23_Witness ==
    /\ cpc = "scan"
    /\ Len(chunks) = 2
    /\ idx = Len(segments) + 1
    /\ Len(current_texts) = 1
    /\ chunks[2].start_time < chunks[1].end_time

\* C28: every fragment seeded as overlap at a split precedes the current
\* fragment in the input, so the current fragment and later ones are never
\* seeded and no fragment's text is in the new buffer twice.
C28_OverlapOnlyEarlier ==
    [][(ScanStep /\ Emits) =>
          LET seeded == overlap_positions(segments, 1,
                            Max(0, current_end - overlap_duration), current_end)
          IN /\ \A k \in 1..Len(seeded) : seeded[k] < idx
             /\ Len(current_texts') = Len(seeded) + 1]_vars

\* strategies 1 and 2 have run, the metadata query was made
AfterStrategy2 == rpc = "embed" /\ metadata_queried

\* the key terms collected from the temporal chunks
TemporalTerms == temporal_terms_of(temporal_chunks)

\* what _retrieve_foundational returned in this call: the ranked candidates
RankedCandidates == retrieve_foundational(RequestVideo, TemporalTerms, timestamp)

\* C24: when the ranked candidate list holds k chunks that Strategy 1 did
\* not select, min(k, max_per_strategy) of them are tagged "foundational":
\* the highest-ranked unseen ones.
C24_TopUnseenFoundational ==
    AfterStrategy2 =>
        LET unseen == SelectSeq(RankedCandidates, LAMBDA c :
                          c.chunk_id \notin IdsTagged(results, "temporal"))
            top == SliceTo(unseen, max_per_strategy)
        IN IdsTagged(results, "foundational") = IdsOf(top)

\* the candidates the foundational metadata query returned in this call
QueryCandidates ==
    query_by_metadata(RequestVideo, TRUE, timestamp, TemporalTerms,
                      max_per_strategy * 2)

\* the number of collected temporal terms that occur in the chunk's
\* lowercase text
TermMatches(c) ==
    Cardinality({ t \in TemporalTerms : Contains(Lower(c.text), Lower(t)) })

\* C26: of the candidates the metadata query returned, a chunk tagged
\* "foundational" is outranked (more term matches, or as many and an earlier
\* start_time) only by chunks that were selected too, by either strategy,
\* and a candidate without a term match is never tagged "foundational".
C26_RankedByTermMatches ==
    AfterStrategy2 =>
        \A i, j \in 1..Len(QueryCandidates) :
            LET a == QueryCandidates[i]
                b == QueryCandidates[j]
            IN a.chunk_id \in IdsTagged(results, "foundational") =>
                  /\ TermMatches(a) > 0
                  /\ (\/ TermMatches(b) > TermMatches(a)
                      \/ /\ TermMatches(b) = TermMatches(a)
                         /\ b.start_time < a.start_time)
                     => b.chunk_id \in IdsOf(results)

\* a candidate with two term matches was tagged and one with a single match,
\* earlier in the video, was left out
C26_Witness ==
    /\ AfterStrategy2
    /\ \E i, j \in 1..Len(QueryCandidates) :
          /\ QueryCandidates[i].chunk_id \in IdsTagged(results, "foundational")
          /\ QueryCandidates[j].chunk_id \notin IdsOf(results)
          /\ TermMatches(QueryCandidates[i]) > TermMatches(QueryCandidates[j])
          /\ TermMatches(QueryCandidates[j]) > 0
          /\ QueryCandidates[j].start_time < QueryCandidates[i].start_time

\* C27: when a chunk that Strategy 1 selected is missing from the returned
\* list, the returned list holds no chunk tagged "foundational" or
\* "semantic".
C27_TemporalKeptFirst ==
    RetrieveReturned =>
        (IdsTagged(results, "temporal") \ IdsOf(retrieved) # {}
            => TagsOf(retrieved) \subseteq {"temporal"})

\* C29: a stored chunk of the video whose interval contains the timestamp
\* and lies inside the temporal window is in the returned list, for every
\* max_total >= 1.
C29_ChunkAtTimestampReturned ==
    (RetrieveReturned /\ max_total >= 1) =>
        \A k \in 1..Len(collection) :
            LET r == collection[k] IN
            (/\ r.video_id = RequestVideo
             /\ r.start_time <= timestamp /\ timestamp <= r.end_time
             /\ r.start_time >= Max(0, timestamp - temporal_window)
             /\ r.end_time <= timestamp + temporal_window)
            => r.id \in IdsOf(retrieved)

\* C25: the number of chunks tagged "semantic" is the smaller of the number
\* of unseen semantic candidates and of max(0, max_total - the number of
\* chunks strategies 1 and 2 selected); they are the unseen candidates of
\* highest similarity; none is added once strategies 1 and 2 have selected
\* max_total chunks or more.
C25_SemanticFillsRemaining ==
    RetrieveReturned =>
        LET needed == Max(0, max_total - SelectedBeforeSemantic)
            added == IdsTagged(results, "semantic")
        IN /\ Cardinality(added) = Min(Len(semantic_chunks), needed)
           /\ \A chosen \in added :
                 \A other \in IdsOf(semantic_chunks) \ added :
                     SimilarityOf(other) <= SimilarityOf(chosen)
           /\ SelectedBeforeSemantic >= max_total => added = {}

=============================================================================
